---- MODULE Spec2Model ----
(***************************************************************************)
(* A model of binary_dict.py: a schema-driven codec between fixed-layout   *)
(* binary records and keyed Python values.                                 *)
(*                                                                         *)
(* Python values are tagged records [t |-> <type name>, <payload>]:        *)
(* None, int, bool, bytes (a sequence of 0..255), str (a sequence of code  *)
(* points), list (a sequence of values) and dict (a function from keys).   *)
(* A call that raises is the result [ok |-> FALSE, err |-> <exception>].   *)
(*                                                                         *)
(* A struct format string is a sequence of tokens [count, code]: '3s' is   *)
(* one token, 'B' is the token with the implicit count 1.  Every format    *)
(* fragment the program builds ends in a code letter, so concatenating     *)
(* fragments concatenates their token sequences.  The model has the one-   *)
(* byte codes B (unsigned byte), ? (bool), s (byte block) and x (pad), for *)
(* which native alignment inserts nothing.                                 *)
(***************************************************************************)
EXTENDS Integers, Sequences, FiniteSets, TLC

VARIABLES definition, record, rebuilt, call

vars == <<definition, record, rebuilt, call>>

(***************************************************************************)
(* Bounds of the model.                                                    *)
(***************************************************************************)
\* declared length of every byte, text, padding and array field
MaxLen == 2
\* number of descriptors (fields, array elements, nested records) in a definition
MaxNodes == 3
\* length of the arbitrary buffers handed to unpack
MaxBuf == 3

(***************************************************************************)
(* Python values and results.                                              *)
(***************************************************************************)
PyNone == [t |-> "None"]
PyInt(n) == [t |-> "int", i |-> n]
PyBool(b) == [t |-> "bool", i |-> IF b THEN 1 ELSE 0]
PyBytes(b) == [t |-> "bytes", b |-> b]
PyStr(s) == [t |-> "str", s |-> s]
PyList(l) == [t |-> "list", l |-> l]
PyDict(d) == [t |-> "dict", d |-> d]

Ok(x) == [ok |-> TRUE, val |-> x]
Err(e) == [ok |-> FALSE, err |-> e]

\* bool(x): the truth value of a Python object
Truthy(x) ==
  CASE x.t = "None" -> FALSE
    [] x.t \in {"int", "bool"} -> x.i # 0
    [] x.t = "bytes" -> Len(x.b) > 0
    [] x.t = "str" -> Len(x.s) > 0
    [] x.t = "list" -> Len(x.l) > 0
    [] x.t = "dict" -> DOMAIN x.d # {}
    [] OTHER -> TRUE

\* seq repeated n times (Python's  seq * n)
RECURSIVE Repeat(_, _)
Repeat(s, n) == IF n <= 0 THEN <<>> ELSE s \o Repeat(s, n - 1)

Range(s) == {s[i] : i \in 1..Len(s)}

RECURSIVE SumSeq(_)
SumSeq(s) == IF s = <<>> THEN 0 ELSE Head(s) + SumSeq(Tail(s))

\* s[:stop] for a Python sequence, stop possibly negative
PySliceTo(s, stop) ==
  LET n == Len(s)
      e == IF stop < 0 THEN stop + n ELSE stop
      c == IF e < 0 THEN 0 ELSE IF e > n THEN n ELSE e
  IN  SubSeq(s, 1, c)

\* s[start:] for a Python sequence, start possibly negative
PySliceFrom(s, start) ==
  LET n == Len(s)
      b == IF start < 0 THEN start + n ELSE start
      c == IF b < 0 THEN 0 ELSE IF b > n THEN n ELSE b
  IN  SubSeq(s, c + 1, n)

\* str.find(ch): index of the first occurrence, -1 when there is none
PyFind(s, ch) ==
  IF \E i \in 1..Len(s) : s[i] = ch
  THEN (CHOOSE i \in 1..Len(s) : s[i] = ch /\ \A j \in 1..(i - 1) : s[j] # ch) - 1
  ELSE -1

(***************************************************************************)
(* Text encodings: str.encode / bytes.decode.  UTF-8 is modelled for code  *)
(* points below 2048 (one- and two-byte sequences) and bytes below 224.    *)
(***************************************************************************)
Utf8Char(c) == IF c < 128 THEN <<c>> ELSE <<192 + (c \div 64), 128 + (c % 64)>>

RECURSIVE Utf8Encode(_)
Utf8Encode(s) == IF s = <<>> THEN <<>> ELSE Utf8Char(Head(s)) \o Utf8Encode(Tail(s))

RECURSIVE Utf8Decode(_)
Utf8Decode(b) ==
  IF b = <<>> THEN Ok(<<>>)
  ELSE IF b[1] < 128
       THEN LET r == Utf8Decode(Tail(b)) IN
            IF r.ok THEN Ok(<<b[1]>> \o r.val) ELSE r
  ELSE IF b[1] >= 194 /\ b[1] < 224 /\ Len(b) >= 2 /\ b[2] >= 128 /\ b[2] < 192
       THEN LET r == Utf8Decode(Tail(Tail(b))) IN
            IF r.ok THEN Ok(<<(b[1] - 192) * 64 + (b[2] - 128)>> \o r.val) ELSE r
  ELSE Err("UnicodeDecodeError")

\* value.encode(encoding=...), encoding None being the default UTF-8
StrEncode(s, encoding) ==
  IF encoding = "latin-1"
  THEN IF \A i \in 1..Len(s) : s[i] < 256 THEN Ok(s) ELSE Err("UnicodeEncodeError")
  ELSE Ok(Utf8Encode(s))

\* block.decode(encoding=...)
BytesDecode(b, encoding) == IF encoding = "latin-1" THEN Ok(b) ELSE Utf8Decode(b)

(***************************************************************************)
(* The struct module: Struct(format).size, .pack, .unpack_from.            *)
(***************************************************************************)
Tok(n, c) == [count |-> n, code |-> c]

TokSize(tk) == tk.count

TokValues(tk) == IF tk.code = "x" THEN 0 ELSE IF tk.code = "s" THEN 1 ELSE tk.count

RECURSIVE CalcSize(_)
CalcSize(format) == IF format = <<>> THEN 0 ELSE TokSize(Head(format)) + CalcSize(Tail(format))

\* number of primitive values the format packs from and unpacks to
RECURSIVE NumValues(_)
NumValues(format) ==
  IF format = <<>> THEN 0 ELSE TokValues(Head(format)) + NumValues(Tail(format))

\* the count-1 tokens of a format: 'BB' and '2B' are the same layout
RECURSIVE Flatten(_)
Flatten(format) ==
  IF format = <<>> THEN <<>>
  ELSE LET tk == Head(format) IN
       (IF tk.code \in {"s", "x"} THEN <<tk>> ELSE Repeat(<<Tok(1, tk.code)>>, tk.count))
       \o Flatten(Tail(format))

\* one value packed by one token
PackOne(tk, x) ==
  CASE tk.code = "B" ->
         IF x.t \in {"int", "bool"}
         THEN IF x.i >= 0 /\ x.i <= 255 THEN Ok(<<x.i>>) ELSE Err("struct.error")
         ELSE Err("struct.error")
    [] tk.code = "?" -> Ok(<<IF Truthy(x) THEN 1 ELSE 0>>)
    [] tk.code = "s" ->
         IF x.t = "bytes"
         THEN Ok(SubSeq(x.b \o Repeat(<<0>>, tk.count), 1, tk.count))
         ELSE Err("struct.error")

RECURSIVE PackTokens(_, _)
PackTokens(toks, values) ==
  IF toks = <<>> THEN Ok(<<>>)
  ELSE LET tk == Head(toks) IN
       IF tk.code = "x"
       THEN LET r == PackTokens(Tail(toks), values) IN
            IF r.ok THEN Ok(Repeat(<<0>>, tk.count) \o r.val) ELSE r
       ELSE LET p == PackOne(tk, Head(values)) IN
            IF ~p.ok THEN p
            ELSE LET r == PackTokens(Tail(toks), Tail(values)) IN
                 IF r.ok THEN Ok(p.val \o r.val) ELSE r

\* struct.Struct(format).pack of the values
StructPack(format, values) ==
  IF Len(values) # NumValues(format) THEN Err("struct.error")
  ELSE PackTokens(Flatten(format), values)

RECURSIVE UnpackTokens(_, _)
UnpackTokens(toks, bytes) ==
  IF toks = <<>> THEN <<>>
  ELSE LET tk == Head(toks)
           rest == UnpackTokens(Tail(toks), SubSeq(bytes, tk.count + 1, Len(bytes)))
       IN  CASE tk.code = "x" -> rest
             [] tk.code = "s" -> <<PyBytes(SubSeq(bytes, 1, tk.count))>> \o rest
             [] tk.code = "B" -> <<PyInt(bytes[1])>> \o rest
             [] tk.code = "?" -> <<PyBool(bytes[1] # 0)>> \o rest

\* struct.Struct(format).unpack_from(data, offset), offset >= 0
StructUnpackFrom(format, data, offset) ==
  IF Len(data) - offset < CalcSize(format) THEN Err("struct.error")
  ELSE Ok(UnpackTokens(Flatten(format), SubSeq(data, offset + 1, Len(data))))

(***************************************************************************)
(* The descriptor classes.  self.struct is struct.Struct(self.format); the *)
(* model keeps the format and derives size and value count from it.        *)
(***************************************************************************)
None == "None"

BasicType(format_str) == [cls |-> "BasicType", format |-> <<Tok(1, format_str)>>]

UINT8 == BasicType("B")

BOOL == BasicType("?")

BYTES(length) == [cls |-> "BYTES", length |-> length, format |-> <<Tok(length, "s")>>]

\* class STRING (STRING is a reserved word of TLA+)
STRING_(length, null_term, encoding) ==
  [cls |-> "STRING", length |-> length, null_term |-> null_term, encoding |-> encoding,
   format |-> <<Tok(length, "s")>>]

SPARE(length) == [cls |-> "SPARE", length |-> length, format |-> <<Tok(length, "x")>>]

ARRAY(data_type, length) ==
  [cls |-> "ARRAY", data_type |-> data_type, length |-> length,
   format |-> Repeat(data_type.format, length)]

\* an OrderedDict: its items in insertion order, each [k |-> key, v |-> value]
OrderedDict(items) == [cls |-> "OrderedDict", items |-> items]

Keys(od) == [i \in 1..Len(od.items) |-> od.items[i].k]

\* od[k] for a key of od
Lookup(od, k) == (CHOOSE i \in 1..Len(od.items) : od.items[i].k = k)

\* isinstance(v, OrderedDict)
IsOrderedDict(v) == v.cls = "OrderedDict"

\* self.structure_dict[k] = new, k being the key of item i: the order is kept
SetItem(od, i, new) == OrderedDict([od.items EXCEPT ![i] = [k |-> od.items[i].k, v |-> new]])

\* self.format += v.format, v being the child as rebound by the loop body
FormatAfterFieldSkippingNested(format, v, child) ==
  format \o (IF IsOrderedDict(v) THEN <<>> ELSE v.format)

FormatAfterField(format, v, child) == format \o child.format

\* BinaryStructure.__init__: the object built, whose structure_dict is the
\* caller's definition object, nested definitions replaced in place
RECURSIVE BinaryStructure(_)
RECURSIVE InitLoop(_, _, _)
InitLoop(structure_dict, i, format) ==
  IF i > Len(structure_dict.items)
  THEN [structure_dict |-> structure_dict, format |-> format]
  ELSE LET v == structure_dict.items[i].v IN
       IF IsOrderedDict(v)
       THEN LET new_binarystructure == BinaryStructure(v) IN
            InitLoop(SetItem(structure_dict, i, new_binarystructure), i + 1,
                     FormatAfterField(format, v, new_binarystructure))
       ELSE InitLoop(structure_dict, i + 1, FormatAfterField(format, v, v))

BinaryStructure(structure_dict) ==
  LET r == InitLoop(structure_dict, 1, <<>>) IN
  [cls |-> "BinaryStructure", structure_dict |-> r.structure_dict, format |-> r.format]

\* len(self)
ByteWidth(self) == CalcSize(self.format)

(***************************************************************************)
(* Encoding: create_packlist and pack.                                     *)
(***************************************************************************)
\* value[i], i >= 0
Subscript(value, i) ==
  CASE value.t = "list" -> IF i < Len(value.l) THEN Ok(value.l[i + 1]) ELSE Err("IndexError")
    [] value.t = "bytes" ->
         IF i < Len(value.b) THEN Ok(PyInt(value.b[i + 1])) ELSE Err("IndexError")
    [] value.t = "str" ->
         IF i < Len(value.s) THEN Ok(PyStr(<<value.s[i + 1]>>)) ELSE Err("IndexError")
    [] value.t = "dict" -> Err("KeyError")
    [] OTHER -> Err("TypeError")

\* value[k]: a missing key raises
DictSubscript(value, k) ==
  IF value.t = "dict"
  THEN IF k \in DOMAIN value.d THEN Ok(value.d[k]) ELSE Err("KeyError")
  ELSE Err("TypeError")

\* value.get(k): None when the key is missing
DictGet(value, k) ==
  IF value.t = "dict"
  THEN Ok(IF k \in DOMAIN value.d THEN value.d[k] ELSE PyNone)
  ELSE Err("AttributeError")

RECURSIVE create_packlist(_, _)
RECURSIVE ArrayPackLoop(_, _, _, _)
ArrayPackLoop(self, value, i, packlist) ==
  IF i >= self.length THEN Ok(packlist)
  ELSE LET item == Subscript(value, i) IN
       IF ~item.ok THEN item
       ELSE LET new_list == create_packlist(self.data_type, item.val) IN
            IF ~new_list.ok THEN new_list
            ELSE ArrayPackLoop(self, value, i + 1, packlist \o new_list.val)

RECURSIVE RecordPackLoop(_, _, _, _)
RecordPackLoop(self, value, i, data_list) ==
  IF i > Len(self.structure_dict.items) THEN Ok(data_list)
  ELSE LET struct_type == self.structure_dict.items[i].v
           val == DictGet(value, self.structure_dict.items[i].k)
       IN  IF ~val.ok THEN val
           ELSE LET new_list == create_packlist(struct_type, val.val) IN
                IF ~new_list.ok THEN new_list
                ELSE RecordPackLoop(self, value, i + 1, data_list \o new_list.val)

create_packlist(self, value) ==
  CASE self.cls \in {"BasicType", "BYTES"} -> Ok(<<value>>)
    [] self.cls = "STRING" ->
         IF value.t = "str"
         THEN LET e == StrEncode(value.s, self.encoding) IN
              IF e.ok THEN Ok(<<PyBytes(e.val)>>) ELSE e
         ELSE Err("AttributeError")
    [] self.cls = "SPARE" -> Ok(<<>>)
    [] self.cls = "ARRAY" -> ArrayPackLoop(self, value, 0, <<>>)
    [] self.cls = "BinaryStructure" -> RecordPackLoop(self, value, 1, <<>>)
    [] OTHER -> Err("AttributeError")

\* StructObject.pack
pack(self, value) ==
  LET data_list == create_packlist(self, value) IN
  IF ~data_list.ok THEN data_list ELSE StructPack(self.format, data_list.val)

(***************************************************************************)
(* Decoding: parse_unpacked and unpack.  A parse returns                   *)
(* [ok, val, count, log]; log records, for every field a record decodes,   *)
(* the slice start the loop used and what the fields before it returned.   *)
(***************************************************************************)
Parsed(val, count, log) == [ok |-> TRUE, val |-> val, count |-> count, log |-> log]

\* unpacked_data[x + unpack_offset:] starts here
SliceStart(x, unpack_offset) == x + unpack_offset

\* unpack_offset += new_offset - 1
NextUnpackOffsetNoDecrement(unpack_offset, new_offset) == unpack_offset + new_offset

NextUnpackOffset(unpack_offset, new_offset) == unpack_offset + new_offset - 1

\* return final_dict, len(keys) + unpack_offset
ConsumedCountKeysOnly(nkeys, unpack_offset) == nkeys

ConsumedCount(nkeys, unpack_offset) == nkeys + unpack_offset

\* STRING.parse_unpacked on the decoded text
NullTerminate(str_data) == PySliceTo(str_data, PyFind(str_data, 0))

RECURSIVE parse_unpacked(_, _)
RECURSIVE ArrayParseLoop(_, _, _, _, _, _)
ArrayParseLoop(self, unpacked_data, i, item_count, value_list, log) ==
  IF i >= self.length THEN Parsed(PyList(value_list), item_count, log)
  ELSE LET r == parse_unpacked(self.data_type, PySliceFrom(unpacked_data, item_count)) IN
       IF ~r.ok THEN r
       ELSE ArrayParseLoop(self, unpacked_data, i + 1, item_count + r.count,
                           Append(value_list, r.val), log \o r.log)

RECURSIVE RecordParseLoop(_, _, _, _, _, _, _)
RecordParseLoop(self, unpacked_data, x, unpack_offset, final_dict, counts, log) ==
  LET keys == Keys(self.structure_dict) IN
  IF x >= Len(keys)
  THEN Parsed(PyDict(final_dict), ConsumedCount(Len(keys), unpack_offset), log)
  ELSE LET key == keys[x + 1]
           format_type == self.structure_dict.items[x + 1].v
           start == SliceStart(x, unpack_offset)
           r == parse_unpacked(format_type, PySliceFrom(unpacked_data, start))
       IN  IF ~r.ok THEN r
           ELSE RecordParseLoop(self, unpacked_data, x + 1,
                  NextUnpackOffset(unpack_offset, r.count),
                  [k \in DOMAIN final_dict \cup {key} |->
                     IF k = key THEN r.val ELSE final_dict[k]],
                  Append(counts, r.count),
                  log \o <<[self |-> self, x |-> x, field |-> format_type,
                            data |-> unpacked_data, start |-> start, before |-> counts,
                            count |-> r.count, val |-> r.val]>> \o r.log)

parse_unpacked(self, unpacked_data) ==
  CASE self.cls \in {"BasicType", "BYTES"} ->
         IF unpacked_data = <<>> THEN Err("IndexError")
         ELSE Parsed(unpacked_data[1], 1, <<>>)
    [] self.cls = "STRING" ->
         IF unpacked_data = <<>> THEN Err("IndexError")
         ELSE IF unpacked_data[1].t # "bytes" THEN Err("AttributeError")
         ELSE LET str_data == BytesDecode(unpacked_data[1].b, self.encoding) IN
              IF ~str_data.ok THEN str_data
              ELSE Parsed(PyStr(IF self.null_term THEN NullTerminate(str_data.val)
                                ELSE str_data.val), 1, <<>>)
    [] self.cls = "SPARE" -> Parsed(PyNone, 0, <<>>)
    [] self.cls = "ARRAY" -> ArrayParseLoop(self, unpacked_data, 0, 0, <<>>, <<>>)
    [] self.cls = "BinaryStructure" ->
         RecordParseLoop(self, unpacked_data, 0, 0, <<>>, <<>>, <<>>)
    [] OTHER -> Err("AttributeError")

\* StructObject.unpack: the whole parse, of which the caller gets [0]
unpack(self, data_array, offset) ==
  LET unpacked == StructUnpackFrom(self.format, data_array, offset) IN
  IF ~unpacked.ok THEN unpacked ELSE parse_unpacked(self, unpacked.val)

(***************************************************************************)
(* The definitions the model is run on: every OrderedDict of at most       *)
(* MaxNodes descriptors, with leaves of every class, ARRAYs of any         *)
(* descriptor (of a built BinaryStructure where the element is a record,   *)
(* as in test2) and nested OrderedDicts at any depth.                      *)
(***************************************************************************)
KeyNames == <<"one", "two", "three", "four", "five", "six">>

Leaves ==
  {UINT8, BOOL, BYTES(MaxLen), STRING_(MaxLen, TRUE, None), STRING_(MaxLen, FALSE, None),
   SPARE(MaxLen)}

RawDefinition(fields) ==
  OrderedDict([i \in 1..Len(fields) |-> [k |-> KeyNames[i], v |-> fields[i]]])

\* what the caller hands to ARRAY(...): a descriptor, a nested definition built first
ElementType(t) == IF IsOrderedDict(t) THEN BinaryStructure(t) ELSE t

RECURSIVE FieldTypes(_)
RECURSIVE FieldLists(_)
\* the field values made of exactly n descriptors
FieldTypes(n) ==
  IF n <= 0 THEN {}
  ELSE IF n = 1 THEN Leaves
  ELSE {ARRAY(ElementType(t), MaxLen) : t \in FieldTypes(n - 1)}
       \cup {RawDefinition(fs) : fs \in FieldLists(n - 1)}

\* the non-empty field lists made of exactly n descriptors
FieldLists(n) ==
  IF n <= 0 THEN {}
  ELSE {<<t>> : t \in FieldTypes(n)}
       \cup UNION {{<<t>> \o rest : t \in FieldTypes(m), rest \in FieldLists(n - m)} :
                   m \in 1..(n - 1)}

Definitions == UNION {{RawDefinition(fs) : fs \in FieldLists(n)} : n \in 1..MaxNodes}

(***************************************************************************)
(* The values handed to pack.  A valid value has every field in the range  *)
(* its descriptor decodes to, padding keys present or missing; an invalid  *)
(* one differs from a valid value in one place: a key missing, a number    *)
(* out of range, a block or a list too short or too long.                  *)
(***************************************************************************)
Absent == [t |-> "absent"]

Fill(n, c) == [i \in 1..n |-> c]

Block(n) == [i \in 1..n |-> 96 + i]

\* a string of n UTF-8 bytes that starts with a two-byte character
Wide(n) == IF n < 2 THEN <<>> ELSE <<233>> \o Fill(n - 2, 97)

\* the dict f with key k bound to x, or without k when x is Absent
Bind(f, k, x) ==
  IF x = Absent THEN [j \in DOMAIN f \ {k} |-> f[j]]
  ELSE [j \in DOMAIN f \cup {k} |-> IF j = k THEN x ELSE f[j]]

RECURSIVE ValidValues(_)
RECURSIVE InvalidValues(_)
RECURSIVE ValidDicts(_)

\* what a key may hold in a valid dict: only a padding key may be missing
ValidChoices(d) == ValidValues(d) \cup (IF d.cls = "SPARE" THEN {Absent} ELSE {})

ValidDicts(items) ==
  IF items = <<>> THEN {<<>>}
  ELSE {Bind(rest, Head(items).k, x) :
          x \in ValidChoices(Head(items).v), rest \in ValidDicts(Tail(items))}

\* lists of length n over E: all elements the same but the first, or but the last
Lists(n, E) ==
  IF E = {} THEN {}
  ELSE LET e == CHOOSE x \in E : TRUE IN
       {[i \in 1..n |-> IF i = j THEN c ELSE e] : c \in E, j \in {1, n}}

ValidValues(d) ==
  CASE d.cls = "BasicType" ->
         IF d.format[1].code = "?" THEN {PyBool(TRUE), PyBool(FALSE)}
         ELSE {PyInt(7), PyInt(200)}
    [] d.cls = "BYTES" -> {PyBytes(Block(d.length))}
    [] d.cls = "STRING" ->
         {PyStr(Fill(d.length, 97)), PyStr(Wide(d.length))}
         \cup (IF d.null_term /\ d.length > 0 THEN {PyStr(Fill(d.length - 1, 97))} ELSE {})
    [] d.cls = "SPARE" -> {PyNone, PyInt(5)}
    [] d.cls = "ARRAY" -> {PyList(l) : l \in Lists(d.length, ValidValues(d.data_type))}
    [] d.cls = "BinaryStructure" -> {PyDict(f) : f \in ValidDicts(d.structure_dict.items)}

InvalidValues(d) ==
  CASE d.cls = "BasicType" -> IF d.format[1].code = "?" THEN {} ELSE {PyInt(256)}
    [] d.cls = "BYTES" ->
         {PyBytes(Block(d.length + 1))}
         \cup (IF d.length > 0 THEN {PyBytes(Block(d.length - 1))} ELSE {})
    [] d.cls = "STRING" -> {PyStr(Fill(d.length + 1, 97))}
    [] d.cls = "SPARE" -> {}
    [] d.cls = "ARRAY" ->
         LET one == CHOOSE l \in Lists(d.length + 1, ValidValues(d.data_type)) : TRUE IN
         {PyList(one)}
         \cup (IF d.length > 0 THEN {PyList(SubSeq(one, 1, d.length - 1))} ELSE {})
         \cup {PyList([SubSeq(one, 1, d.length) EXCEPT ![1] = b]) :
                 b \in InvalidValues(d.data_type)}
    [] d.cls = "BinaryStructure" ->
         LET items == d.structure_dict.items
             base == CHOOSE f \in ValidDicts(items) : DOMAIN f = {it.k : it \in Range(items)}
         IN  UNION {{PyDict(Bind(base, items[i].k, x)) : x \in InvalidValues(items[i].v)} :
                      i \in 1..Len(items)}
             \cup {PyDict(Bind(base, items[i].k, Absent)) :
                     i \in {j \in 1..Len(items) : items[j].v.cls # "SPARE"}}

\* the dicts handed to the record's pack
Inputs(self) == ValidValues(self) \cup InvalidValues(self)

ByteAlphabet == {0, 97, 195, 169}

RECURSIVE BytesOfLen(_)
BytesOfLen(n) ==
  IF n = 0 THEN {<<>>} ELSE {<<b>> \o r : b \in ByteAlphabet, r \in BytesOfLen(n - 1)}

\* the buffers handed to unpack: every one long enough, and one too short
Buffers(self) ==
  UNION {BytesOfLen(n) : n \in ByteWidth(self)..MaxBuf}
  \cup (IF ByteWidth(self) > 0 THEN {Fill(ByteWidth(self) - 1, 0)} ELSE {})

Offsets == {0, 1}

(***************************************************************************)
(* The state machine: a caller builds a record from its definition, may    *)
(* build a second one from the same definition object and drop it, and     *)
(* calls pack and unpack on the record, one call after the other.  call is *)
(* the call that has just returned, until the caller takes its result.     *)
(***************************************************************************)
NoRecord == [cls |-> "None"]

NoValue == [t |-> "absent"]

NoResult == [ok |-> FALSE, err |-> "not called"]

Called(op, arg, data, offset, result, source) ==
  [op |-> op, arg |-> arg, data |-> data, offset |-> offset, result |-> result,
   source |-> source]

\* the calls leave self as it is: neither method assigns to an attribute
PackCallClearingFormat(self, value) ==
  [self |-> [self EXCEPT !.format = <<>>], result |-> pack(self, value)]

PackCall(self, value) == [self |-> self, result |-> pack(self, value)]

UnpackCall(self, data_array, offset) ==
  [self |-> self, result |-> unpack(self, data_array, offset)]

\* no call is waiting for its result to be taken, no second record is held
Idle == call.op \notin {"pack", "unpack"} /\ rebuilt = NoRecord

Init ==
  /\ definition \in Definitions
  /\ record = NoRecord
  /\ rebuilt = NoRecord
  /\ call = Called("none", NoValue, <<>>, 0, NoResult, NoValue)

\* test_structure = BinaryStructure(test_dict)
Build ==
  /\ record = NoRecord
  /\ LET self == BinaryStructure(definition) IN
     /\ record' = self
     /\ definition' = self.structure_dict
  /\ call' = Called("build", NoValue, <<>>, 0, NoResult, NoValue)
  /\ UNCHANGED rebuilt

\* BinaryStructure(test_dict) once more: record.structure_dict is that same object
Rebuild ==
  /\ record # NoRecord
  /\ Idle
  /\ LET self == BinaryStructure(definition) IN
     /\ rebuilt' = self
     /\ definition' = self.structure_dict
     /\ record' = [record EXCEPT !.structure_dict = self.structure_dict]
  /\ call' = Called("rebuild", NoValue, <<>>, 0, NoResult, NoValue)

Pack(value) ==
  /\ record # NoRecord
  /\ Idle
  /\ LET r == PackCall(record, value) IN
     /\ record' = r.self
     /\ call' = Called("pack", value, <<>>, 0, r.result, NoValue)
  /\ UNCHANGED <<definition, rebuilt>>

Unpack(data, offset, source) ==
  /\ LET r == UnpackCall(record, data, offset) IN
     /\ record' = r.self
     /\ call' = Called("unpack", NoValue, data, offset, r.result, source)
  /\ UNCHANGED <<definition, rebuilt>>

\* unpack of an arbitrary buffer
UnpackBuffer ==
  /\ record # NoRecord
  /\ Idle
  /\ \E data \in Buffers(record), offset \in Offsets : Unpack(data, offset, NoValue)

\* unpack of the bytes the last pack returned
UnpackPacked ==
  /\ call.op = "pack"
  /\ call.result.ok
  /\ Unpack(call.result.val, 0, call.arg)

PackInput == record # NoRecord /\ Idle /\ \E value \in Inputs(record) : Pack(value)

\* the caller takes the result; the record is ready for the next call
Return ==
  /\ call.op \in {"pack", "unpack"}
  /\ call' = Called("none", NoValue, <<>>, 0, NoResult, NoValue)
  /\ UNCHANGED <<definition, record, rebuilt>>

\* the caller lets go of the second record
Drop ==
  /\ rebuilt # NoRecord
  /\ rebuilt' = NoRecord
  /\ call' = Called("none", NoValue, <<>>, 0, NoResult, NoValue)
  /\ UNCHANGED <<definition, record>>

Next == Build \/ Rebuild \/ PackInput \/ UnpackBuffer \/ UnpackPacked \/ Return \/ Drop

Spec == Init /\ [][Next]_vars

(***************************************************************************)
(* What the properties speak of.                                           *)
(***************************************************************************)
FieldOf(self, k) == self.structure_dict.items[Lookup(self.structure_dict, k)].v

PaddingKeys(self) ==
  {it.k : it \in {jt \in Range(self.structure_dict.items) : jt.v.cls = "SPARE"}}

\* value with every padding key bound to x, at every depth, or removed when x is Absent
RECURSIVE SetPadding(_, _, _)
SetPadding(d, value, x) ==
  CASE d.cls = "BinaryStructure" /\ value.t = "dict" ->
         LET pads == PaddingKeys(d)
             keys == IF x = Absent THEN DOMAIN value.d \ pads ELSE DOMAIN value.d \cup pads
         IN  PyDict([k \in keys |->
               IF k \in pads THEN x
               ELSE IF k \in Range(Keys(d.structure_dict))
                    THEN SetPadding(FieldOf(d, k), value.d[k], x)
                    ELSE value.d[k]])
    [] d.cls = "ARRAY" /\ value.t = "list" ->
         PyList([i \in 1..Len(value.l) |-> SetPadding(d.data_type, value.l[i], x)])
    [] d.cls = "SPARE" /\ x # Absent -> x
    [] OTHER -> value

\* Python's ==, under which True == 1 and False == 0
RECURSIVE Canon(_)
Canon(value) ==
  CASE value.t = "bool" -> PyInt(value.i)
    [] value.t = "list" -> PyList([i \in 1..Len(value.l) |-> Canon(value.l[i])])
    [] value.t = "dict" -> PyDict([k \in DOMAIN value.d |-> Canon(value.d[k])])
    [] OTHER -> value

PyEq(a, b) == Canon(a) = Canon(b)

\* the elements of a list that an array of the declared length reads
Read(d, value) == 1..(IF Len(value.l) < d.length THEN Len(value.l) ELSE d.length)

\* value holds, for some array field, a list whose length is not the declared one
RECURSIVE LengthMismatch(_, _)
LengthMismatch(d, value) ==
  CASE d.cls = "ARRAY" /\ value.t = "list" ->
         \/ Len(value.l) # d.length
         \/ \E i \in Read(d, value) : LengthMismatch(d.data_type, value.l[i])
    [] d.cls = "BinaryStructure" /\ value.t = "dict" ->
         \E it \in Range(d.structure_dict.items) :
           it.k \in DOMAIN value.d /\ LengthMismatch(it.v, value.d[it.k])
    [] OTHER -> FALSE

\* value lacks the key of some field that is not padding
RECURSIVE MissingField(_, _)
MissingField(d, value) ==
  CASE d.cls = "ARRAY" /\ value.t = "list" ->
         \E i \in Read(d, value) : MissingField(d.data_type, value.l[i])
    [] d.cls = "BinaryStructure" /\ value.t = "dict" ->
         \E it \in Range(d.structure_dict.items) :
           /\ it.v.cls # "SPARE"
           /\ \/ it.k \notin DOMAIN value.d
              \/ MissingField(it.v, value.d[it.k])
    [] OTHER -> FALSE

\* value holds, for some byte field, a block whose length is not the declared one
RECURSIVE WrongBlock(_, _)
WrongBlock(d, value) ==
  CASE d.cls = "BYTES" /\ value.t = "bytes" -> Len(value.b) # d.length
    [] d.cls = "ARRAY" /\ value.t = "list" ->
         \E i \in Read(d, value) : WrongBlock(d.data_type, value.l[i])
    [] d.cls = "BinaryStructure" /\ value.t = "dict" ->
         \E it \in Range(d.structure_dict.items) :
           it.k \in DOMAIN value.d /\ WrongBlock(it.v, value.d[it.k])
    [] OTHER -> FALSE

\* the text up to its first null character, all of it when it has none
CutAtFirstNull(s) ==
  IF \E i \in 1..Len(s) : s[i] = 0
  THEN SubSeq(s, 1, (CHOOSE i \in 1..Len(s) : s[i] = 0 /\ \A j \in 1..(i - 1) : s[j] # 0) - 1)
  ELSE s

\* the slots of the fields before field x (counted from 0) in the record's flat layout
SlotsBefore(self, x) ==
  SumSeq([i \in 1..x |-> NumValues(self.structure_dict.items[i].v.format)])

\* the slots of field x itself, cut out of the list the record decodes
OwnSlots(self, unpacked_data, x) ==
  SubSeq(unpacked_data, SlotsBefore(self, x) + 1,
         SlotsBefore(self, x) + NumValues(self.structure_dict.items[x + 1].v.format))

PackReturned == call.op = "pack" /\ call.result.ok

UnpackReturned == call.op = "unpack" /\ call.result.ok

Log == IF UnpackReturned THEN Range(call.result.log) ELSE {}

RoundTripped == call.op = "unpack" /\ call.source # NoValue

(***************************************************************************)
(* The properties.                                                         *)
(***************************************************************************)

\* C1: for every record and every valid value v with all its non-padding
\* fields present, unpack(pack(v)) returns v with every padding field set
\* to None.
RoundTrip ==
  (RoundTripped /\ call.source \in ValidValues(record))
    => /\ call.result.ok
       /\ PyEq(call.result.val, SetPadding(record, call.source, PyNone))

\* C2: pack returns the same for a value whether its padding keys are
\* missing or bound to any value, at every depth; a missing padding key
\* never makes it fail.
PaddingIgnored ==
  call.op = "pack"
    => \A x \in {Absent, PyNone, PyInt(5)} :
         pack(record, SetPadding(record, call.arg, x)) = call.result

\* a pack that returned bytes for a value without the padding key that a
\* record inside an array declares
PaddingIgnoredWitness ==
  /\ PackReturned
  /\ call.arg = SetPadding(record, call.arg, Absent)
  /\ \E it \in Range(record.structure_dict.items) :
       /\ it.v.cls = "ARRAY"
       /\ it.v.data_type.cls = "BinaryStructure"
       /\ PaddingKeys(it.v.data_type) # {}
       /\ it.k \in DOMAIN call.arg.d

\* C3: pack fails, and returns no bytes, whenever the list given for an
\* array field is shorter or longer than the declared length.
ArrayLengthEnforced ==
  (call.op = "pack" /\ LengthMismatch(record, call.arg)) => ~call.result.ok

\* C4: pack fails whenever the key of a field that is not padding is
\* missing, at any depth; it never packs a default in its place.
MissingFieldSignalled ==
  (call.op = "pack" /\ MissingField(record, call.arg)) => ~call.result.ok

\* C5: a null-terminated text field decodes to its text cut at the first
\* null character, and to the whole text when there is none.
NullTermination ==
  \A e \in Log :
    (e.field.cls = "STRING" /\ e.field.null_term)
      => LET text == BytesDecode(e.data[e.start + 1].b, e.field.encoding) IN
         text.ok /\ e.val = PyStr(CutAtFirstNull(text.val))

\* C6: pack rejects a byte block that is shorter or longer than the
\* declared length of its byte field; it never pads or truncates it.
ByteBlockExactLength ==
  (call.op = "pack" /\ WrongBlock(record, call.arg)) => ~call.result.ok

IdempotentConstruction ==
  [][call'.op = "rebuild"
       => /\ rebuilt'.format = record.format
          /\ ByteWidth(rebuilt') = ByteWidth(record)
          /\ Keys(rebuilt'.structure_dict) = Keys(record.structure_dict)]_vars

\* a second record, built from a definition whose nested definition the
\* first build replaced by a record
IdempotentConstructionWitness ==
  /\ rebuilt # NoRecord
  /\ \E it \in Range(definition.items) :
       it.v.cls = "BinaryStructure" /\ it.v.format # <<>>

\* C9: the slice a record's decode hands to field x starts at the sum of the
\* counts of the fields before it, which is where the field's slots start in
\* the flat layout; every field is decoded from its own slots, and a
\* padding field is stored as None.
CursorThreading ==
  \A e \in Log :
    /\ e.start = SumSeq(e.before)
    /\ e.start = SlotsBefore(e.self, e.x)
    /\ LET own == parse_unpacked(e.field, OwnSlots(e.self, e.data, e.x)) IN
       own.ok /\ e.val = own.val
    /\ e.field.cls = "SPARE" => e.val = PyNone
    /\ e.self = record => call.result.val.d[e.self.structure_dict.items[e.x + 1].k] = e.val

\* a decode in which a field follows padding or a field of several slots, so
\* that its slots do not start at its key's index
CursorThreadingWitness ==
  /\ UnpackReturned
  /\ \E e \in Log :
       /\ e.x >= 1
       /\ e.start # e.x
       /\ e.self.structure_dict.items[e.x].v.cls \in {"SPARE", "ARRAY", "BinaryStructure"}

\* C10: pack and unpack leave the record as it was built, so that each call
\* returns what it returns on a record freshly built from the definition.
StatelessCalls ==
  [][call'.op \in {"pack", "unpack"}
       => /\ record' = record
          /\ definition' = definition
          /\ call'.result =
               IF call'.op = "pack" THEN pack(BinaryStructure(definition), call'.arg)
               ELSE unpack(BinaryStructure(definition), call'.data, call'.offset)]_vars

\* an unpack that follows a pack on the same record
StatelessCallsWitness == RoundTripped /\ call.result.ok
====
